---- MODULE Spec2Model ----
(***************************************************************************)
(* A model of src/raii_wrapper.h: the RAII wrappers ScopeGuard, GILGuard,  *)
(* GILRelease, PyObjectPtr and NumpyBuffer, over a small model of the part *)
(* of the CPython runtime they call (reference counts, the GIL, the buffer *)
(* protocol).                                                              *)
(***************************************************************************)
EXTENDS Integers, FiniteSets, Sequences, TLC

\* ------------------------------------------------------------------ bounds
NHandles == 2      \* PyObjectPtr objects that can exist at once
NGuards == 2       \* ScopeGuard objects that can exist at once
NActions == 2      \* cleanup actions handed to make_guard
NThreads == 2      \* native threads
NBufs == 2         \* NumpyBuffer objects that can exist at once
MaxDepth == 3      \* GILGuard / GILRelease objects nested on one thread
NObjects == 2      \* foreign objects
InitRaw == 1       \* counts on each object the calling code owns at the start
InitOther == 1     \* counts on each object other owners hold throughout
MaxExtra == 1      \* counts borrow may add to an object beyond its initial count
IntBits == 4       \* width of long long in the model (two's complement)
MantBits == 2      \* significand bits of double in the model
Over == 2          \* how far foreign integers reach beyond the range of long long
MaxHalf == 3       \* finite doubles handed to double_to_py: -MaxHalf/2 .. MaxHalf/2
MaxStrLen == 2     \* bytes in a C string, code points in a foreign string
MaxLen == 2        \* slots of a container; the integers converted into items
MaxOwn == 2        \* counts the calling code owns at once through the C ABI

Handles == 1..NHandles
Guards == 1..NGuards
Actions == 1..NActions
Threads == 1..NThreads
Bufs == 1..NBufs
NoThread == 0
Objects == 1..NObjects
NULL == 0          \* nullptr
InitRef == InitRaw + InitOther   \* each object's reference count at the start
MaxRef == InitRef + MaxExtra
Ptrs == Objects \cup {NULL}

VARIABLES
    \* ---- PyObjectPtr and the objects' reference counts
    hstate,    \* hstate[h]: "none" (not constructed / destroyed) or "live"
    ptr,       \* ptr[h]: PyObjectPtr::ptr_
    refcnt,    \* refcnt[o]: ob_refcnt of object o (0: deallocated)
    raw,       \* raw[o]: counts on o the calling code owns through raw pointers
    last,      \* the last PyObjectPtr operation and its arguments (history)
    xfer,      \* the last move and the decrements of the moved count since (history)
    \* ---- ScopeGuard
    gstate,    \* gstate[g]: "none" (not constructed / destroyed) or "live"
    active,    \* active[g]: ScopeGuard::active_
    cleanup,   \* cleanup[g]: the action ScopeGuard::cleanup_ was built or moved from
    runs,      \* runs[a]: how many times cleanup action a has been invoked
    made,      \* made[a]: action a has been handed to make_guard (history)
    dcalled,   \* dcalled[a]: dismiss() was called on a guard carrying a (history)
    dis,       \* dis[g]: "no", "dismissed", or "inherited" by move from such a guard
    exc,       \* the failure propagating in the enclosing scope: "none" or "primary"
    terminated,\* a failure escaped a destructor (std::terminate)
    glast,     \* the last ScopeGuard operation (history)
    \* ---- GILGuard / GILRelease and the GIL
    gil,       \* the thread that holds the GIL, or NoThread
    base,      \* the thread that entered native code holding the GIL, or NoThread
    tpc,       \* tpc[t]: "run", "ensure" (in PyGILState_Ensure), "restore" (in
               \* PyEval_RestoreThread)
    stack,     \* stack[t]: the thread's live GILGuard / GILRelease objects, innermost last
    tlast,     \* the last GIL operation (history)
    \* ---- NumpyBuffer and the buffer protocol
    bstate,    \* bstate[b]: "none" (not constructed / destroyed) or "live"
    valid,     \* valid[b]: NumpyBuffer::valid_
    vobj,      \* vobj[b]: NumpyBuffer::view_.obj, the exporter the view holds
    exports,   \* exports[o]: the views of o that are outstanding (o's export count)
    bufok,     \* bufok[o]: o exports a buffer compatible with the request
    pyerr,     \* the runtime's error indicator is set
    origin,    \* origin[b]: how b was built: "default", "ok", "failed", "moved" (history)
    blast,     \* the last NumpyBuffer operation (history)
    \* ---- type converters
    cobj,      \* the foreign object at hand: the last *_to_py result, or one handed in
    csrc,      \* the native value cobj was converted from, or NoValue (history)
    cout,      \* the native value the last py_to_* call returned, or NoValue
    cerr,      \* the runtime's error indicator, as the converters see it
    cop,       \* the last converter called (history)
    \* ---- C ABI: objects and containers
    arc,       \* arc[o]: the reference count of object o (0: not allocated)
    aown,      \* aown[o]: the counts on o the calling code owns
    ckind,     \* the container's type: "list", "tuple", "dict", or "none" (not allocated)
    citems,    \* the container's slots: the item at each index / key, or NULL
    cn,        \* the size the container was created with (history)
    cset,      \* cset[i]: the item most recently set at slot i, or NULL (history)
    alast      \* the last C ABI call, its arguments and its result (history)

ptrVars == <<hstate, ptr, refcnt, raw, last, xfer>>
guardVars == <<gstate, active, cleanup, runs, made, dcalled, dis, exc, terminated, glast>>
gilVars == <<gil, base, tpc, stack, tlast>>
bufVars == <<bstate, valid, vobj, exports, bufok, pyerr, origin, blast>>
handleVars == <<hstate, ptr, raw, last, xfer>>
convVars == <<cobj, csrc, cout, cerr, cop>>
abiVars == <<arc, aown, ckind, citems, cn, cset, alast>>
extVars == <<convVars, abiVars>>
vars == <<ptrVars, guardVars, gilVars, bufVars, extVars>>

\* ------------------------------------------------- CPython: reference counts
\* Py_XINCREF(p): no-op on nullptr, else ++ob_refcnt
Py_XINCREF(rc, p) == IF p = NULL THEN rc ELSE [rc EXCEPT ![p] = @ + 1]

\* Py_XDECREF(p): no-op on nullptr, else --ob_refcnt (0 deallocates)
Py_XDECREF(rc, p) == IF p = NULL THEN rc ELSE [rc EXCEPT ![p] = @ - 1]

\* the calling code gives away (d = -1) or gets back (d = 1) one raw owned count
RawAdj(rw, p, d) == IF p = NULL THEN rw ELSE [rw EXCEPT ![p] = @ + d]

\* a pointer the calling code may pass as an owned reference
Owned(p) == IF p = NULL THEN TRUE ELSE raw[p] > 0
\* a pointer the calling code may pass at all (the object is alive)
Alive(p) == IF p = NULL THEN TRUE ELSE refcnt[p] > 0

NoXfer == [on |-> FALSE, src |-> 0, dst |-> 0, obj |-> NULL, decs |-> 0]
\* an operation other than destruction on a handle of the tracked move ends the tracking
Touch(hs) == IF xfer.on /\ ({xfer.src, xfer.dst} \cap hs) # {} THEN NoXfer ELSE xfer

Op(name, h, src, p) == [op |-> name, h |-> h, src |-> src, p |-> p]

\* g: the guard, src: the guard moved from, a: the guard's action, was/act: the
\* guard's dis and active_ before the operation, threw: the cleanup action failed
GOp(name, g, src, a, was, act, threw) ==
    [op |-> name, g |-> g, src |-> src, a |-> a, was |-> was, act |-> act,
     threw |-> threw]

\* no ScopeGuard exists, no failure is in flight
GuardIdle ==
    /\ gstate = [g \in Guards |-> "none"]
    /\ active = [g \in Guards |-> FALSE]
    /\ cleanup = [g \in Guards |-> 0]
    /\ runs = [a \in Actions |-> 0]
    /\ made = [a \in Actions |-> FALSE]
    /\ dcalled = [a \in Actions |-> FALSE]
    /\ dis = [g \in Guards |-> "no"]
    /\ exc = "none"
    /\ terminated = FALSE
    /\ glast = GOp("Init", 0, 0, 0, "no", FALSE, FALSE)

\* t: the thread, was: whether it held the GIL when the destroyed or constructed
\* object was constructed
TOp(name, t, was) == [op |-> name, t |-> t, was |-> was]

\* no thread holds the GIL, no lock guard exists
GilIdle ==
    /\ gil = NoThread
    /\ base = NoThread
    /\ tpc = [t \in Threads |-> "run"]
    /\ stack = [t \in Threads |-> <<>>]
    /\ tlast = TOp("Init", NoThread, FALSE)

\* b: the view, src: the view moved from, arr: the constructor's argument, released:
\* PyBuffer_Release gave a view back to its exporter, org: b's origin before
BOp(name, b, src, arr, released, org) ==
    [op |-> name, b |-> b, src |-> src, arr |-> arr, released |-> released,
     org |-> org]

\* no view exists, nothing is exported
BufViewsIdle ==
    /\ bstate = [b \in Bufs |-> "none"]
    /\ valid = [b \in Bufs |-> FALSE]
    /\ vobj = [b \in Bufs |-> NULL]
    /\ exports = [o \in Objects |-> 0]
    /\ pyerr = FALSE
    /\ origin = [b \in Bufs |-> "none"]
    /\ blast = BOp("Init", 0, 0, NULL, FALSE, "none")

BufIdle == BufViewsIdle /\ bufok = [o \in Objects |-> FALSE]

\* ------------------------------------------------- type converters: values
\* a double: finite (half halves), not-a-number, or an infinity
Fin(n) == [cls |-> "fin", half |-> n]
NaN == [cls |-> "nan", half |-> 0]
PosInf == [cls |-> "inf", half |-> 0]
NegInf == [cls |-> "ninf", half |-> 0]
Doubles == {Fin(n) : n \in -MaxHalf..MaxHalf} \cup {NaN, PosInf, NegInf}

\* a foreign object: type is "int", "bool", "float", "str" (str: its code points),
\* "other" (any other type), or "null" (a null PyObject*)
PyObj(type, n, x, c) == [type |-> type, int |-> n, dbl |-> x, str |-> c]
PyInt(n) == PyObj("int", n, Fin(0), <<>>)
PyBool(b) == PyObj("bool", IF b THEN 1 ELSE 0, Fin(0), <<>>)
PyFloat(x) == PyObj("float", 0, x, <<>>)
PyStr(c) == PyObj("str", 0, Fin(0), c)
PyOther == PyObj("other", 0, Fin(0), <<>>)
PyNull == PyObj("null", 0, Fin(0), <<>>)

\* a native value: kind is "long", "double", "string" (str: its bytes before the
\* NUL), "bool", "null" (a null const char*), "crash" (the call did not return),
\* "none"
Val(kind, n, x, bs) == [int |-> n, dbl |-> x, str |-> bs, kind |-> kind]
LVal(n) == Val("long", n, Fin(0), <<>>)
DVal(x) == Val("double", 0, x, <<>>)
SVal(bs) == Val("string", 0, Fin(0), bs)
BVal(b) == Val("bool", IF b THEN 1 ELSE 0, Fin(0), <<>>)
NullStr == Val("null", 0, Fin(0), <<>>)
Crash == Val("crash", 0, Fin(0), <<>>)
NoValue == Val("none", 0, Fin(0), <<>>)

\* no converter has been called, no object is at hand
ConvIdle ==
    /\ cobj = PyNull
    /\ csrc = NoValue
    /\ cout = NoValue
    /\ cerr = FALSE
    /\ cop = "Init"

\* ------------------------------------------------------ C ABI: the objects
JitNoneObj == 1     \* Py_None
JitTrueObj == 2     \* Py_True
JitFalseObj == 3    \* Py_False
Singletons == {JitNoneObj, JitTrueObj, JitFalseObj}
\* the integers the calling code converts, and the int object of each
ItemValues == 1..MaxLen
IntObj(v) == JitFalseObj + v
IntObjs == {IntObj(v) : v \in ItemValues}
\* the one container object
Container == JitFalseObj + MaxLen + 1
AbiObjs == 1..Container
Slots == 0..(MaxLen - 1)

\* the counts on o that the runtime itself holds
BaseRc(o) == IF o = Container THEN 0 ELSE 1

\* name: the entry point; val: its integer result; ret: the object it returned, or
\* NULL; idx: its index argument; con, arg: its container and item arguments, or NULL
AOp(name, val, ret, idx, con, arg) ==
    [op |-> name, val |-> val, ret |-> ret, idx |-> idx, con |-> con, arg |-> arg]

\* no container exists, the calling code owns no count
AbiIdle ==
    /\ arc = [o \in AbiObjs |-> BaseRc(o)]
    /\ aown = [o \in AbiObjs |-> 0]
    /\ ckind = "none"
    /\ citems = <<>>
    /\ cn = 0
    /\ cset = [i \in 1..MaxLen |-> NULL]
    /\ alast = AOp("Init", 0, NULL, 0, NULL, NULL)

ExtIdle == ConvIdle /\ AbiIdle

\* ------------------------------------------------------------- PyObjectPtr
\* PyObjectPtr() : ptr_(nullptr)
DefaultCtor(h) ==
    /\ hstate[h] = "none"
    /\ hstate' = [hstate EXCEPT ![h] = "live"]
    /\ ptr' = [ptr EXCEPT ![h] = NULL]
    /\ last' = Op("DefaultCtor", h, 0, NULL)
    /\ xfer' = Touch({h})
    /\ UNCHANGED <<refcnt, raw>>
    /\ UNCHANGED <<guardVars, gilVars, bufVars, extVars>>

\* the pointer a handle built by steal(p) holds
StealPtr(p) == p

\* static steal(p): PyObjectPtr(p), no INCREF; the caller's count becomes the handle's
Steal(h, p) ==
    /\ hstate[h] = "none"
    /\ Owned(p)
    /\ hstate' = [hstate EXCEPT ![h] = "live"]
    /\ ptr' = [ptr EXCEPT ![h] = StealPtr(p)]
    /\ raw' = RawAdj(raw, p, -1)
    /\ last' = Op("Steal", h, 0, p)
    /\ xfer' = Touch({h})
    /\ UNCHANGED <<refcnt>>
    /\ UNCHANGED <<guardVars, gilVars, bufVars, extVars>>

\* a borrow that forgets its Py_XINCREF
BorrowCountNoIncref(rc, p) == rc

\* the counts after borrow(p)'s Py_XINCREF(p)
BorrowCount(rc, p) == Py_XINCREF(rc, p)

\* static borrow(p): Py_XINCREF(p); PyObjectPtr(p)
Borrow(h, p) ==
    /\ hstate[h] = "none"
    /\ Alive(p)
    /\ IF p = NULL THEN TRUE ELSE refcnt[p] < MaxRef
    /\ hstate' = [hstate EXCEPT ![h] = "live"]
    /\ refcnt' = BorrowCount(refcnt, p)
    /\ ptr' = [ptr EXCEPT ![h] = p]
    /\ last' = Op("Borrow", h, 0, p)
    /\ xfer' = Touch({h})
    /\ UNCHANGED <<raw>>
    /\ UNCHANGED <<guardVars, gilVars, bufVars, extVars>>

\* a move constructor that leaves other.ptr_ as it was
MovedFromKept(p) == p

\* what the move constructor leaves in other.ptr_
MovedFrom(p) == NULL

\* PyObjectPtr(PyObjectPtr&& other) : ptr_(other.ptr_) { other.ptr_ = nullptr; }
MoveCtor(dst, src) ==
    /\ hstate[dst] = "none"
    /\ hstate[src] = "live"
    /\ hstate' = [hstate EXCEPT ![dst] = "live"]
    /\ ptr' = [ptr EXCEPT ![dst] = ptr[src], ![src] = MovedFrom(ptr[src])]
    /\ last' = Op("MoveCtor", dst, src, ptr[src])
    /\ xfer' = [on |-> TRUE, src |-> src, dst |-> dst, obj |-> ptr[src], decs |-> 0]
    /\ UNCHANGED <<refcnt, raw>>
    /\ UNCHANGED <<guardVars, gilVars, bufVars, extVars>>

\* operator=(PyObjectPtr&& other): if (this != &other) { Py_XDECREF(ptr_);
\* ptr_ = other.ptr_; other.ptr_ = nullptr; }
MoveAssign(dst, src) ==
    /\ hstate[dst] = "live"
    /\ hstate[src] = "live"
    /\ IF dst # src
         THEN /\ refcnt' = Py_XDECREF(refcnt, ptr[dst])
              /\ ptr' = [ptr EXCEPT ![dst] = ptr[src], ![src] = NULL]
              /\ xfer' = [on |-> TRUE, src |-> src, dst |-> dst, obj |-> ptr[src],
                          decs |-> 0]
         ELSE /\ UNCHANGED <<refcnt, ptr>>
              /\ xfer' = Touch({dst})
    /\ last' = Op("MoveAssign", dst, src, ptr[src])
    /\ UNCHANGED <<hstate, raw>>
    /\ UNCHANGED <<guardVars, gilVars, bufVars, extVars>>

\* a release that keeps its pointer
ReleasedPtrKept(p) == p

\* release(): ptr_ = nullptr
ReleasedPtr(p) == NULL

\* release(): p = ptr_; ptr_ = nullptr; return p  (the caller owns the count now)
Release(h) ==
    /\ hstate[h] = "live"
    /\ ptr' = [ptr EXCEPT ![h] = ReleasedPtr(ptr[h])]
    /\ raw' = RawAdj(raw, ptr[h], 1)
    /\ last' = Op("Release", h, 0, ptr[h])
    /\ xfer' = Touch({h})
    /\ UNCHANGED <<hstate, refcnt>>
    /\ UNCHANGED <<guardVars, gilVars, bufVars, extVars>>

\* a reset that forgets its Py_XDECREF
ResetCountNoDecref(rc, held) == rc

\* reset(p): Py_XDECREF(ptr_)
ResetCount(rc, held) == Py_XDECREF(rc, held)

\* reset(p): Py_XDECREF(ptr_); ptr_ = p  (p is a stolen reference); last.src records
\* the pointer held before
Reset(h, p) ==
    /\ hstate[h] = "live"
    /\ Owned(p)
    /\ refcnt' = ResetCount(refcnt, ptr[h])
    /\ ptr' = [ptr EXCEPT ![h] = p]
    /\ raw' = RawAdj(raw, p, -1)
    /\ last' = Op("Reset", h, ptr[h], p)
    /\ xfer' = Touch({h})
    /\ UNCHANGED <<hstate>>
    /\ UNCHANGED <<guardVars, gilVars, bufVars, extVars>>

\* ~PyObjectPtr(): Py_XDECREF(ptr_)
Destroy(h) ==
    /\ hstate[h] = "live"
    /\ hstate' = [hstate EXCEPT ![h] = "none"]
    /\ refcnt' = Py_XDECREF(refcnt, ptr[h])
    /\ ptr' = [ptr EXCEPT ![h] = NULL]
    /\ last' = Op("Destroy", h, 0, ptr[h])
    /\ xfer' = IF xfer.on /\ h \in {xfer.src, xfer.dst}
                 THEN [xfer EXCEPT !.decs =
                          @ + (IF ptr[h] # NULL /\ ptr[h] = xfer.obj THEN 1 ELSE 0)]
                 ELSE xfer
    /\ UNCHANGED <<raw>>
    /\ UNCHANGED <<guardVars, gilVars, bufVars, extVars>>

\* the objects at the start: each alive, the calling code owning InitRaw of its counts
PtrIdle ==
    /\ hstate = [h \in Handles |-> "none"]
    /\ ptr = [h \in Handles |-> NULL]
    /\ raw = [o \in Objects |-> InitRaw]
    /\ refcnt = [o \in Objects |-> InitRef]
    /\ last = Op("Init", 0, 0, NULL)
    /\ xfer = NoXfer

InitPtr == PtrIdle /\ GuardIdle /\ GilIdle /\ BufIdle /\ ExtIdle

NextPtr ==
    \/ \E h \in Handles : DefaultCtor(h)
    \/ \E h \in Handles, p \in Ptrs : Steal(h, p)
    \/ \E h \in Handles, p \in Ptrs : Borrow(h, p)
    \/ \E d \in Handles, s \in Handles : MoveCtor(d, s)
    \/ \E d \in Handles, s \in Handles : MoveAssign(d, s)
    \/ \E h \in Handles : Release(h)
    \/ \E h \in Handles, p \in Ptrs : Reset(h, p)
    \/ \E h \in Handles : Destroy(h)

SpecPtr == InitPtr /\ [][NextPtr]_vars

\* -------------------------------------------------------------- ScopeGuard
\* make_guard(cleanup): ScopeGuard<F>(std::move(cleanup)), cleanup_(...), active_(true)
MakeGuard(g, a) ==
    /\ ~terminated /\ exc = "none"
    /\ gstate[g] = "none"
    /\ ~made[a]
    /\ gstate' = [gstate EXCEPT ![g] = "live"]
    /\ cleanup' = [cleanup EXCEPT ![g] = a]
    /\ active' = [active EXCEPT ![g] = TRUE]
    /\ made' = [made EXCEPT ![a] = TRUE]
    /\ dis' = [dis EXCEPT ![g] = "no"]
    /\ glast' = GOp("MakeGuard", g, 0, a, "no", FALSE, FALSE)
    /\ UNCHANGED <<runs, dcalled, exc, terminated>>
    /\ UNCHANGED <<ptrVars, gilVars, bufVars, extVars>>

\* a move constructor that leaves other.active_ as it was
GMovedFromActiveKept(a) == a

\* the move constructor's other.active_ = false
GMovedFromActive(a) == FALSE

\* a move constructor that makes every new guard active
GMoveActiveAlways(a) == TRUE

\* the move constructor's active_(other.active_)
GMoveActive(a) == a

\* ScopeGuard(ScopeGuard&& other): cleanup_(std::move(other.cleanup_)),
\* active_(other.active_) { other.active_ = false; }
GuardMove(dst, src) ==
    /\ ~terminated /\ exc = "none"
    /\ gstate[dst] = "none"
    /\ gstate[src] = "live"
    /\ gstate' = [gstate EXCEPT ![dst] = "live"]
    /\ cleanup' = [cleanup EXCEPT ![dst] = cleanup[src]]
    /\ active' = [active EXCEPT ![dst] = GMoveActive(active[src]),
                                ![src] = GMovedFromActive(active[src])]
    /\ dis' = [dis EXCEPT ![dst] = IF dis[src] = "no" THEN "no" ELSE "inherited"]
    /\ glast' = GOp("GuardMove", dst, src, cleanup[src], dis[src], active[src], FALSE)
    /\ UNCHANGED <<runs, made, dcalled, exc, terminated>>
    /\ UNCHANGED <<ptrVars, gilVars, bufVars, extVars>>

\* a dismiss() that leaves active_ as it was
DismissedActiveKept(a) == a

\* dismiss(): active_ = false
DismissedActive(a) == FALSE

Dismiss(g) ==
    /\ ~terminated /\ exc = "none"
    /\ gstate[g] = "live"
    /\ active' = [active EXCEPT ![g] = DismissedActive(active[g])]
    /\ dis' = [dis EXCEPT ![g] = "dismissed"]
    /\ dcalled' = [dcalled EXCEPT ![cleanup[g]] = TRUE]
    /\ glast' = GOp("Dismiss", g, 0, cleanup[g], dis[g], active[g], FALSE)
    /\ UNCHANGED <<gstate, cleanup, runs, made, exc, terminated>>
    /\ UNCHANGED <<ptrVars, gilVars, bufVars, extVars>>

\* a destructor without the try/catch: a failure of the cleanup action leaves it
EscapesNoCatch(isActive, throws) == isActive /\ throws

\* whether a failure leaves ~ScopeGuard(): try { cleanup_(); } catch (...) {}
Escapes(isActive, throws) == FALSE

\* ~ScopeGuard(): if (active_) { try { cleanup_(); } catch (...) {} }
\* throws: whether the cleanup action, if invoked, fails
GuardDestroy(g, throws) ==
    /\ ~terminated
    /\ gstate[g] = "live"
    /\ gstate' = [gstate EXCEPT ![g] = "none"]
    /\ runs' = IF active[g] THEN [runs EXCEPT ![cleanup[g]] = @ + 1] ELSE runs
    /\ terminated' = Escapes(active[g], throws)
    /\ active' = [active EXCEPT ![g] = FALSE]
    /\ cleanup' = [cleanup EXCEPT ![g] = 0]
    /\ dis' = [dis EXCEPT ![g] = "no"]
    /\ glast' = GOp("GuardDestroy", g, 0, cleanup[g], dis[g], active[g], active[g] /\ throws)
    /\ UNCHANGED <<made, dcalled, exc>>
    /\ UNCHANGED <<ptrVars, gilVars, bufVars, extVars>>

\* the enclosing scope fails: a failure starts to propagate, and the scope's guards
\* are destroyed while it does
ScopeThrows ==
    /\ ~terminated /\ exc = "none"
    /\ \E g \in Guards : gstate[g] = "live"
    /\ exc' = "primary"
    /\ glast' = GOp("ScopeThrows", 0, 0, 0, "no", FALSE, FALSE)
    /\ UNCHANGED <<gstate, active, cleanup, runs, made, dcalled, dis, terminated>>
    /\ UNCHANGED <<ptrVars, gilVars, bufVars, extVars>>

\* the propagating failure is caught further out, after the scope's guards are gone
ScopeCaught ==
    /\ ~terminated /\ exc = "primary"
    /\ \A g \in Guards : gstate[g] = "none"
    /\ exc' = "none"
    /\ glast' = GOp("ScopeCaught", 0, 0, 0, "no", FALSE, FALSE)
    /\ UNCHANGED <<gstate, active, cleanup, runs, made, dcalled, dis, terminated>>
    /\ UNCHANGED <<ptrVars, gilVars, bufVars, extVars>>

InitGuard == GuardIdle /\ PtrIdle /\ GilIdle /\ BufIdle /\ ExtIdle

NextGuard ==
    \/ \E g \in Guards, a \in Actions : MakeGuard(g, a)
    \/ \E d \in Guards, s \in Guards : GuardMove(d, s)
    \/ \E g \in Guards : Dismiss(g)
    \/ \E g \in Guards, t \in BOOLEAN : GuardDestroy(g, t)
    \/ ScopeThrows
    \/ ScopeCaught

SpecGuard == InitGuard /\ [][NextGuard]_vars

\* --------------------------------------------------- GILGuard / GILRelease
Top(t) == stack[t][Len(stack[t])]
Pop(t) == SubSeq(stack[t], 1, Len(stack[t]) - 1)

\* GILGuard(): the thread calls PyGILState_Ensure()
GILGuardBegin(t) ==
    /\ tpc[t] = "run"
    /\ Len(stack[t]) < MaxDepth
    /\ tpc' = [tpc EXCEPT ![t] = "ensure"]
    /\ tlast' = TOp("GILGuardBegin", t, gil = t)
    /\ UNCHANGED <<gil, base, stack>>
    /\ UNCHANGED <<ptrVars, guardVars, bufVars, extVars>>

\* an acquire that waits for the lock to be free even if the caller holds it
CanEnsureNonReentrant(t) == gil = NoThread

\* an acquire that does not wait
CanEnsureAlways(t) == TRUE

\* PyGILState_Ensure() returns at once if the calling thread holds the GIL, and
\* else when the GIL is free
CanEnsure(t) == gil = t \/ gil = NoThread

\* PyGILState_Ensure()'s result: whether the thread held the GIL at the call
EnsureState(t) == IF gil = t THEN "LOCKED" ELSE "UNLOCKED"

\* GILGuard() : state_(PyGILState_Ensure()) -- PyGILState_Ensure returns
GILGuardEnter(t) ==
    /\ tpc[t] = "ensure"
    /\ CanEnsure(t)
    /\ gil' = t
    /\ stack' = [stack EXCEPT ![t] =
                   Append(@, [kind |-> "guard", state |-> EnsureState(t), was |-> gil = t])]
    /\ tpc' = [tpc EXCEPT ![t] = "run"]
    /\ tlast' = TOp("GILGuardEnter", t, gil = t)
    /\ UNCHANGED base
    /\ UNCHANGED <<ptrVars, guardVars, bufVars, extVars>>

\* a release that ignores the saved state
ReleasesGilAlways(state) == TRUE

\* a release that never gives the GIL up
ReleasesGilNever(state) == FALSE

\* PyGILState_Release(state) gives the GIL up iff Ensure had taken it
ReleasesGil(state) == state = "UNLOCKED"

\* ~GILGuard(): PyGILState_Release(state_)
GILGuardDtor(t) ==
    /\ tpc[t] = "run"
    /\ Len(stack[t]) > 0
    /\ Top(t).kind = "guard"
    /\ gil' = IF ReleasesGil(Top(t).state) THEN NoThread ELSE gil
    /\ stack' = [stack EXCEPT ![t] = Pop(t)]
    /\ tlast' = TOp("GILGuardDtor", t, Top(t).was)
    /\ UNCHANGED <<base, tpc>>
    /\ UNCHANGED <<ptrVars, guardVars, bufVars, extVars>>

\* GILRelease() : save_(PyEval_SaveThread()) -- the caller must hold the GIL
GILReleaseCtor(t) ==
    /\ tpc[t] = "run"
    /\ Len(stack[t]) < MaxDepth
    /\ gil = t
    /\ gil' = NoThread
    /\ stack' = [stack EXCEPT ![t] =
                   Append(@, [kind |-> "release", state |-> "SAVED", was |-> TRUE])]
    /\ tlast' = TOp("GILReleaseCtor", t, TRUE)
    /\ UNCHANGED <<base, tpc>>
    /\ UNCHANGED <<ptrVars, guardVars, bufVars, extVars>>

\* ~GILRelease(): the thread calls PyEval_RestoreThread(save_)
GILReleaseDtorBegin(t) ==
    /\ tpc[t] = "run"
    /\ Len(stack[t]) > 0
    /\ Top(t).kind = "release"
    /\ tpc' = [tpc EXCEPT ![t] = "restore"]
    /\ tlast' = TOp("GILReleaseDtorBegin", t, TRUE)
    /\ UNCHANGED <<gil, base, stack>>
    /\ UNCHANGED <<ptrVars, guardVars, bufVars, extVars>>

\* a reacquire that does not wait
CanRestoreAlways(t) == TRUE

\* a reacquire that never returns
CanRestoreNever(t) == FALSE

\* PyEval_RestoreThread() returns when the GIL is free
CanRestore(t) == gil = NoThread

\* ~GILRelease(): PyEval_RestoreThread(save_) returns
GILReleaseDtorEnd(t) ==
    /\ tpc[t] = "restore"
    /\ CanRestore(t)
    /\ gil' = t
    /\ stack' = [stack EXCEPT ![t] = Pop(t)]
    /\ tpc' = [tpc EXCEPT ![t] = "run"]
    /\ tlast' = TOp("GILReleaseDtorEnd", t, TRUE)
    /\ UNCHANGED base
    /\ UNCHANGED <<ptrVars, guardVars, bufVars, extVars>>

\* at the start no lock guard exists; one thread may have been called from the
\* interpreter and hold the GIL
InitGil ==
    /\ gil \in Threads \cup {NoThread}
    /\ base = gil
    /\ tpc = [t \in Threads |-> "run"]
    /\ stack = [t \in Threads |-> <<>>]
    /\ tlast = TOp("Init", NoThread, FALSE)
    /\ PtrIdle /\ GuardIdle /\ BufIdle /\ ExtIdle

NextGil ==
    \/ \E t \in Threads : GILGuardBegin(t)
    \/ \E t \in Threads : GILGuardEnter(t)
    \/ \E t \in Threads : GILGuardDtor(t)
    \/ \E t \in Threads : GILReleaseCtor(t)
    \/ \E t \in Threads : GILReleaseDtorBegin(t)
    \/ \E t \in Threads : GILReleaseDtorEnd(t)

SpecGil == InitGil /\ [][NextGil]_vars

\* thread t gives the GIL up: ~GILGuard() of the guard that took it, or GILRelease()
GilGivenUp(t) == (GILGuardDtor(t) \/ GILReleaseCtor(t)) /\ gil' = NoThread

\* a thread that holds the GIL goes on: its call of PyGILState_Ensure returns, the
\* scope of its innermost GILGuard ends
HolderProceeds(t) == gil = t /\ (GILGuardEnter(t) \/ GILGuardDtor(t))

\* fair scheduling: the thread that holds the GIL goes on and, if it can give the GIL
\* up again and again, does; a thread waiting in PyEval_RestoreThread gets the GIL if
\* it is free again and again
FairGil ==
    /\ WF_vars(\E t \in Threads : HolderProceeds(t))
    /\ SF_vars(\E t \in Threads : GilGivenUp(t))
    /\ \A t \in Threads : SF_vars(GILReleaseDtorEnd(t))

SpecGilFair == InitGil /\ [][NextGil]_vars /\ FairGil

\* ------------------------------------------------ C ABI: lock control by handle
\* The jit_gil_* entry points are declared in the header and defined elsewhere.  An
\* opaque lock handle stands for a heap-allocated GILGuard or GILRelease: the begin
\* call constructs one and returns it, the matching end call destroys it.  With the
\* calls well nested, the live handles of a thread are the entries of stack[t].

\* jit_gil_acquire() is called: new GILGuard() starts
JitGilAcquireCall(t) == GILGuardBegin(t)
\* jit_gil_acquire() returns the handle of the constructed GILGuard
JitGilAcquireReturn(t) == GILGuardEnter(t)
\* jit_gil_release(guard): delete the GILGuard, guard being the innermost live handle
JitGilRelease(t) == GILGuardDtor(t)
\* jit_gil_release_begin(): return the handle of a new GILRelease
JitGilReleaseBegin(t) == GILReleaseCtor(t)
\* jit_gil_release_end(save) is called: delete of the GILRelease starts
JitGilReleaseEndCall(t) == GILReleaseDtorBegin(t)
\* jit_gil_release_end(save) returns
JitGilReleaseEndReturn(t) == GILReleaseDtorEnd(t)

\* the opaque lock handles of thread t that are live
LiveLockHandles(t) == 1..Len(stack[t])

NextGilAbi ==
    \/ \E t \in Threads : JitGilAcquireCall(t)
    \/ \E t \in Threads : JitGilAcquireReturn(t)
    \/ \E t \in Threads : JitGilRelease(t)
    \/ \E t \in Threads : JitGilReleaseBegin(t)
    \/ \E t \in Threads : JitGilReleaseEndCall(t)
    \/ \E t \in Threads : JitGilReleaseEndReturn(t)

SpecGilAbi == InitGil /\ [][NextGilAbi]_vars

\* ------------------------------------------------------------- NumpyBuffer
\* PyObject_GetBuffer(arr, &view_, PyBUF_STRIDES | PyBUF_FORMAT): 0 on success, -1 if
\* arr exports no compatible buffer
GetBufferResult(arr) == IF bufok[arr] THEN 0 ELSE -1

\* the exporter after a successful PyObject_GetBuffer: view_.obj holds a new count
\* on it and one more view is outstanding
GetBufferCounts(rc, arr) == Py_XINCREF(rc, arr)

\* PyBuffer_Release(&view_): nothing if view_.obj is null, else one view fewer is
\* outstanding and the view's count on the exporter is dropped
ReleaseExports(ex, o) == IF o = NULL THEN ex ELSE [ex EXCEPT ![o] = @ - 1]

\* NumpyBuffer() : valid_(false) { view_.obj = nullptr; }
BufDefaultCtor(b) ==
    /\ bstate[b] = "none"
    /\ bstate' = [bstate EXCEPT ![b] = "live"]
    /\ valid' = [valid EXCEPT ![b] = FALSE]
    /\ vobj' = [vobj EXCEPT ![b] = NULL]
    /\ origin' = [origin EXCEPT ![b] = "default"]
    /\ blast' = BOp("BufDefaultCtor", b, 0, NULL, FALSE, "none")
    /\ UNCHANGED <<exports, bufok, pyerr>>
    /\ UNCHANGED <<ptrVars, guardVars, gilVars, extVars>>

\* a constructor that sets valid_ whatever PyObject_GetBuffer returned
CtorValidAlways(rc) == TRUE

\* the constructor's valid_: true iff PyObject_GetBuffer(...) == 0
CtorValid(rc) == rc = 0

\* NumpyBuffer(PyObject* arr) : valid_(false) { view_.obj = nullptr;
\* if (PyObject_GetBuffer(arr, &view_, ...) == 0) valid_ = true; }
BufCtor(b, arr) ==
    /\ bstate[b] = "none"
    /\ refcnt[arr] > 0
    /\ IF bufok[arr] THEN refcnt[arr] < MaxRef ELSE TRUE
    /\ bstate' = [bstate EXCEPT ![b] = "live"]
    /\ valid' = [valid EXCEPT ![b] = CtorValid(GetBufferResult(arr))]
    /\ IF GetBufferResult(arr) = 0
         THEN /\ vobj' = [vobj EXCEPT ![b] = arr]
              /\ refcnt' = GetBufferCounts(refcnt, arr)
              /\ exports' = [exports EXCEPT ![arr] = @ + 1]
              /\ origin' = [origin EXCEPT ![b] = "ok"]
              /\ UNCHANGED pyerr
         ELSE /\ vobj' = [vobj EXCEPT ![b] = NULL]
              /\ pyerr' = TRUE
              /\ origin' = [origin EXCEPT ![b] = "failed"]
              /\ UNCHANGED <<refcnt, exports>>
    /\ blast' = BOp("BufCtor", b, 0, arr, FALSE, "none")
    /\ UNCHANGED bufok
    /\ UNCHANGED <<handleVars, guardVars, gilVars, extVars>>

\* ~NumpyBuffer(): if (valid_) PyBuffer_Release(&view_);
BufDtor(b) ==
    /\ bstate[b] = "live"
    /\ bstate' = [bstate EXCEPT ![b] = "none"]
    /\ IF valid[b]
         THEN /\ exports' = ReleaseExports(exports, vobj[b])
              /\ refcnt' = Py_XDECREF(refcnt, vobj[b])
         ELSE UNCHANGED <<exports, refcnt>>
    /\ valid' = [valid EXCEPT ![b] = FALSE]
    /\ vobj' = [vobj EXCEPT ![b] = NULL]
    /\ origin' = [origin EXCEPT ![b] = "none"]
    /\ blast' = BOp("BufDtor", b, 0, NULL, valid[b], origin[b])
    /\ UNCHANGED <<bufok, pyerr>>
    /\ UNCHANGED <<handleVars, guardVars, gilVars, extVars>>

\* a move that leaves other.valid_ as it was
BufMovedFromValidKept(v) == v

\* what a move leaves in other.valid_: other.valid_ = false
BufMovedFromValid(v) == FALSE

\* NumpyBuffer(NumpyBuffer&& other) : view_(other.view_), valid_(other.valid_)
\* { other.valid_ = false; other.view_.obj = nullptr; }
BufMoveCtor(dst, src) ==
    /\ bstate[dst] = "none"
    /\ bstate[src] = "live"
    /\ bstate' = [bstate EXCEPT ![dst] = "live"]
    /\ valid' = [valid EXCEPT ![dst] = valid[src],
                                       ![src] = BufMovedFromValid(valid[src])]
    /\ vobj' = [vobj EXCEPT ![dst] = vobj[src], ![src] = NULL]
    /\ origin' = [origin EXCEPT ![dst] = "moved"]
    /\ blast' = BOp("BufMoveCtor", dst, src, NULL, FALSE, origin[src])
    /\ UNCHANGED <<exports, bufok, pyerr>>
    /\ UNCHANGED <<ptrVars, guardVars, gilVars, extVars>>

\* operator=(NumpyBuffer&& other): if (this != &other) { if (valid_)
\* PyBuffer_Release(&view_); view_ = other.view_; valid_ = other.valid_;
\* other.valid_ = false; other.view_.obj = nullptr; }
BufMoveAssign(dst, src) ==
    /\ bstate[dst] = "live"
    /\ bstate[src] = "live"
    /\ IF dst # src
         THEN /\ IF valid[dst]
                   THEN /\ exports' = ReleaseExports(exports, vobj[dst])
                        /\ refcnt' = Py_XDECREF(refcnt, vobj[dst])
                   ELSE UNCHANGED <<exports, refcnt>>
              /\ valid' = [valid EXCEPT ![dst] = valid[src],
                                       ![src] = BufMovedFromValid(valid[src])]
              /\ vobj' = [vobj EXCEPT ![dst] = vobj[src], ![src] = NULL]
              /\ origin' = [origin EXCEPT ![dst] = "moved"]
              /\ blast' = BOp("BufMoveAssign", dst, src, NULL, valid[dst], origin[dst])
         ELSE /\ UNCHANGED <<exports, refcnt, valid, vobj, origin>>
              /\ blast' = BOp("BufMoveAssign", dst, src, NULL, FALSE, origin[dst])
    /\ UNCHANGED <<bstate, bufok, pyerr>>
    /\ UNCHANGED <<handleVars, guardVars, gilVars, extVars>>

\* at the start no view exists; each object either exports a compatible buffer or
\* does not
InitBuf ==
    /\ BufViewsIdle
    /\ bufok \in [Objects -> BOOLEAN]
    /\ PtrIdle /\ GuardIdle /\ GilIdle /\ ExtIdle

NextBuf ==
    \/ \E b \in Bufs : BufDefaultCtor(b)
    \/ \E b \in Bufs, arr \in Objects : BufCtor(b, arr)
    \/ \E b \in Bufs : BufDtor(b)
    \/ \E d \in Bufs, s \in Bufs : BufMoveCtor(d, s)
    \/ \E d \in Bufs, s \in Bufs : BufMoveAssign(d, s)

SpecBuf == InitBuf /\ [][NextBuf]_vars

\* --------------------------------------------------------- type converters
RECURSIVE Pow2(_)
Pow2(k) == IF k = 0 THEN 1 ELSE 2 * Pow2(k - 1)

LLMax == Pow2(IntBits - 1) - 1      \* LLONG_MAX
LLMin == -Pow2(IntBits - 1)         \* LLONG_MIN
LongLongs == LLMin..LLMax
PyInts == (LLMin - Over)..(LLMax + Over)   \* foreign integers are unbounded

\* the bytes C strings are made of: 'A', the two bytes of U+00E9, and 0xFF, which no
\* UTF-8 sequence contains
Bytes == {65, 195, 169, 255}
\* the code points foreign strings are made of: 'A', U+00E9, and a lone surrogate
CodePoints == {65, 233, 56320}
SeqsUpTo(S, n) == UNION {[1..k -> S] : k \in 0..n}
CStrings == SeqsUpTo(Bytes, MaxStrLen)

RECURSIVE BitLen(_)
BitLen(m) == IF m = 0 THEN 0 ELSE 1 + BitLen(m \div 2)

\* a magnitude rounded to MantBits significant bits, ties to even
RoundMag(m) ==
    IF BitLen(m) <= MantBits THEN m
    ELSE LET q == Pow2(BitLen(m) - MantBits)
             lo == (m \div q) * q
             r == m - lo
         IN  IF 2 * r < q THEN lo
             ELSE IF 2 * r > q THEN lo + q
             ELSE IF (m \div q) % 2 = 0 THEN lo ELSE lo + q

\* static_cast<double>(n): the nearest double
ToDouble(n) == Fin(2 * (IF n < 0 THEN -RoundMag(-n) ELSE RoundMag(n)))

\* strict UTF-8 decoding of one- and two-byte sequences (Bytes has no other lead byte)
RECURSIVE Utf8Decode(_)
Utf8Decode(bs) ==
    IF bs = <<>> THEN [ok |-> TRUE, cps |-> <<>>]
    ELSE IF bs[1] < 128
    THEN LET r == Utf8Decode(Tail(bs))
         IN  [ok |-> r.ok, cps |-> <<bs[1]>> \o r.cps]
    ELSE IF bs[1] >= 194 /\ bs[1] <= 223 /\ Len(bs) >= 2 /\ bs[2] \in 128..191
    THEN LET r == Utf8Decode(SubSeq(bs, 3, Len(bs)))
         IN  [ok |-> r.ok, cps |-> <<(bs[1] - 192) * 64 + (bs[2] - 128)>> \o r.cps]
    ELSE [ok |-> FALSE, cps |-> <<>>]

\* strict UTF-8 encoding of code points below U+0800; a surrogate cannot be encoded
RECURSIVE Utf8Encode(_)
Utf8Encode(cps) ==
    IF cps = <<>> THEN [ok |-> TRUE, bytes |-> <<>>]
    ELSE IF cps[1] >= 55296 /\ cps[1] <= 57343 THEN [ok |-> FALSE, bytes |-> <<>>]
    ELSE LET r == Utf8Encode(Tail(cps))
             b == IF cps[1] < 128 THEN <<cps[1]>>
                  ELSE <<192 + (cps[1] \div 64), 128 + (cps[1] % 64)>>
         IN  [ok |-> r.ok, bytes |-> b \o r.bytes]

PyLong_Check(obj) == obj.type \in {"int", "bool"}
PyFloat_Check(obj) == obj.type = "float"

\* PyLong_AsLongLong: the value of an int that fits; -1 with OverflowError if it does
\* not fit; -1 with TypeError for an object that is no int and has no __index__; -1
\* with SystemError for a null pointer
PyLong_AsLongLong(obj) ==
    IF PyLong_Check(obj) /\ obj.int \in LongLongs
    THEN [val |-> LVal(obj.int), err |-> FALSE]
    ELSE [val |-> LVal(-1), err |-> TRUE]

\* PyFloat_AsDouble on a float object: its value
PyFloat_AsDouble(obj) == [val |-> DVal(obj.dbl), err |-> FALSE]

\* PyUnicode_AsUTF8: the UTF-8 bytes of a str; null with an error set for any other
\* object or a str that cannot be encoded; a null pointer is dereferenced
PyUnicode_AsUTF8(obj) ==
    IF obj.type = "null" THEN [val |-> Crash, err |-> FALSE]
    ELSE IF obj.type = "str" /\ Utf8Encode(obj.str).ok
    THEN [val |-> SVal(Utf8Encode(obj.str).bytes), err |-> FALSE]
    ELSE [val |-> NullStr, err |-> TRUE]

\* PyObject_IsTrue: the truth value; a null pointer is dereferenced
PyObject_IsTrue(obj) ==
    IF obj.type = "null" THEN [val |-> Crash, err |-> FALSE]
    ELSE IF PyLong_Check(obj) THEN [val |-> BVal(obj.int # 0), err |-> FALSE]
    ELSE IF PyFloat_Check(obj) THEN [val |-> BVal(obj.dbl # Fin(0)), err |-> FALSE]
    ELSE IF obj.type = "str" THEN [val |-> BVal(obj.str # <<>>), err |-> FALSE]
    ELSE [val |-> BVal(TRUE), err |-> FALSE]

\* PyLong_FromLongLong: a new int object of that value
PyLong_FromLongLong(v) == [obj |-> PyInt(v), err |-> FALSE]
\* PyFloat_FromDouble: a new float object of that value
PyFloat_FromDouble(d) == [obj |-> PyFloat(d), err |-> FALSE]
\* PyBool_FromLong: True or False
PyBool_FromLong(v) == [obj |-> PyBool(v # 0), err |-> FALSE]
\* PyUnicode_FromString: a new str decoded from UTF-8; null with UnicodeDecodeError
\* set if the bytes are not valid UTF-8
PyUnicode_FromString(s) ==
    IF Utf8Decode(s).ok THEN [obj |-> PyStr(Utf8Decode(s).cps), err |-> FALSE]
    ELSE [obj |-> PyNull, err |-> TRUE]

\* py_to_long(obj): return PyLong_AsLongLong(obj)
py_to_long(obj) == PyLong_AsLongLong(obj)

\* py_to_double without its PyFloat_Check branch
py_to_double_LongOnly(obj) ==
    IF obj.type = "null" THEN [val |-> Crash, err |-> FALSE]
    ELSE IF PyLong_Check(obj)
    THEN [val |-> DVal(ToDouble(PyLong_AsLongLong(obj).val.int)),
          err |-> PyLong_AsLongLong(obj).err]
    ELSE [val |-> DVal(Fin(0)), err |-> FALSE]

\* py_to_double(obj): PyFloat_AsDouble for a float, static_cast<double> of
\* PyLong_AsLongLong for an int, else 0.0; PyFloat_Check dereferences a null pointer
py_to_double(obj) ==
    IF obj.type = "null" THEN [val |-> Crash, err |-> FALSE]
    ELSE IF PyFloat_Check(obj) THEN PyFloat_AsDouble(obj)
    ELSE IF PyLong_Check(obj)
    THEN [val |-> DVal(ToDouble(PyLong_AsLongLong(obj).val.int)),
          err |-> PyLong_AsLongLong(obj).err]
    ELSE [val |-> DVal(Fin(0)), err |-> FALSE]

\* py_to_string(obj): return PyUnicode_AsUTF8(obj)
py_to_string(obj) == PyUnicode_AsUTF8(obj)

\* py_to_bool(obj): return PyObject_IsTrue(obj) != 0
py_to_bool(obj) == PyObject_IsTrue(obj)

\* long_to_py(val): return PyLong_FromLongLong(val)
long_to_py(v) == PyLong_FromLongLong(v)
\* double_to_py(val): return PyFloat_FromDouble(val)
double_to_py(d) == PyFloat_FromDouble(d)
\* string_to_py(val): return PyUnicode_FromString(val)
string_to_py(s) == PyUnicode_FromString(s)
\* bool_to_py(val): return PyBool_FromLong(val ? 1 : 0)
bool_to_py(b) == PyBool_FromLong(IF b THEN 1 ELSE 0)

\* the process has not crashed
Running == cout.kind # "crash"

\* a native-to-foreign converter returned r for the native value src
ToPy(name, src, r) ==
    /\ Running
    /\ cobj' = r.obj
    /\ csrc' = src
    /\ cout' = NoValue
    /\ cerr' = (cerr \/ r.err)
    /\ cop' = name
    /\ UNCHANGED <<ptrVars, guardVars, gilVars, bufVars, abiVars>>

\* a foreign-to-native converter applied to the object at hand returned r
FromPy(name, r) ==
    /\ Running
    /\ cout' = r.val
    /\ cerr' = (cerr \/ r.err)
    /\ cop' = name
    /\ UNCHANGED <<cobj, csrc>>
    /\ UNCHANGED <<ptrVars, guardVars, gilVars, bufVars, abiVars>>

LongToPy(v) == ToPy("long_to_py", LVal(v), long_to_py(v))
DoubleToPy(d) == ToPy("double_to_py", DVal(d), double_to_py(d))
StringToPy(s) == ToPy("string_to_py", SVal(s), string_to_py(s))
BoolToPy(b) == ToPy("bool_to_py", BVal(b), bool_to_py(b))

PyToLong == FromPy("py_to_long", py_to_long(cobj))
PyToDouble == FromPy("py_to_double", py_to_double(cobj))
PyToString == FromPy("py_to_string", py_to_string(cobj))
PyToBool == FromPy("py_to_bool", py_to_bool(cobj))

\* the objects the foreign runtime can hand to the native code
GivenObjects ==
    {PyInt(n) : n \in PyInts} \cup {PyBool(b) : b \in BOOLEAN}
        \cup {PyFloat(d) : d \in Doubles}
        \cup {PyStr(c) : c \in SeqsUpTo(CodePoints, MaxStrLen)} \cup {PyOther}

\* the native code receives a foreign object from the runtime
Given(o) ==
    /\ Running
    /\ cobj' = o
    /\ csrc' = NoValue
    /\ cout' = NoValue
    /\ cop' = "Given"
    /\ UNCHANGED cerr
    /\ UNCHANGED <<ptrVars, guardVars, gilVars, bufVars, abiVars>>

\* the caller clears the runtime's error indicator
ErrClear ==
    /\ Running
    /\ cerr
    /\ cerr' = FALSE
    /\ cop' = "ErrClear"
    /\ UNCHANGED <<cobj, csrc, cout>>
    /\ UNCHANGED <<ptrVars, guardVars, gilVars, bufVars, abiVars>>

InitConv == ConvIdle /\ AbiIdle /\ PtrIdle /\ GuardIdle /\ GilIdle /\ BufIdle

NextConv ==
    \/ \E v \in LongLongs : LongToPy(v)
    \/ \E d \in Doubles : DoubleToPy(d)
    \/ \E s \in CStrings : StringToPy(s)
    \/ \E b \in BOOLEAN : BoolToPy(b)
    \/ \E o \in GivenObjects : Given(o)
    \/ PyToLong
    \/ PyToDouble
    \/ PyToString
    \/ PyToBool
    \/ ErrClear

SpecConv == InitConv /\ [][NextConv]_vars

\* ------------------------------------------- C ABI: objects and containers
\* The jit_* entry points are declared in the header and defined elsewhere.  They are
\* modelled by the rule stated for the whole surface: a function that returns an
\* object returns a new owned reference, a function that takes an object borrows it.
\* jit_incref and jit_decref adjust the count the caller owns.  A list or tuple has
\* the slots 0 .. n-1; a dict is modelled with the keys 0 .. MaxLen-1, NULL standing
\* for an absent key.
RECURSIVE SumTo(_, _)
SumTo(f, n) == IF n = 0 THEN 0 ELSE f[n] + SumTo(f, n - 1)
\* the counts the calling code owns
TotalOwn == SumTo(aown, Container)
\* the slots of the container that hold o
Occ(o, items) == Cardinality({i \in 1..Len(items) : items[i] = o})

\* a result handed out without a count of its own
NewRefBorrowed(rc, x) == rc

\* the count a returned object gets for the caller
NewRef(rc, x) == [rc EXCEPT ![x] = @ + 1]

\* entry point name returns object x to the caller
ReturnsNew(name, x, idx, con) ==
    /\ TotalOwn < MaxOwn
    /\ arc' = NewRef(arc, x)
    /\ aown' = [aown EXCEPT ![x] = @ + 1]
    /\ alast' = AOp(name, 0, x, idx, con, NULL)
    /\ UNCHANGED <<ckind, citems, cn, cset>>
    /\ UNCHANGED <<ptrVars, guardVars, gilVars, bufVars, convVars>>

\* jit_none() / jit_true() / jit_false()
JitNone == ReturnsNew("jit_none", JitNoneObj, 0, NULL)
JitTrue == ReturnsNew("jit_true", JitTrueObj, 0, NULL)
JitFalse == ReturnsNew("jit_false", JitFalseObj, 0, NULL)

\* jit_long_to_py(val): the int object long_to_py(val) makes
JitLongToPy(v) == ReturnsNew("jit_long_to_py", IntObj(long_to_py(v).obj.int), 0, NULL)

\* jit_list_new(n) / jit_tuple_new(n) / jit_dict_new(): a new container, its slots
\* empty
ContainerNew(kind, name, n) ==
    /\ ckind = "none"
    /\ TotalOwn < MaxOwn
    /\ ckind' = kind
    /\ citems' = [i \in 1..n |-> NULL]
    /\ cn' = n
    /\ cset' = [i \in 1..MaxLen |-> NULL]
    /\ arc' = NewRef(arc, Container)
    /\ aown' = [aown EXCEPT ![Container] = @ + 1]
    /\ alast' = AOp(name, 0, Container, n, NULL, NULL)
    /\ UNCHANGED <<ptrVars, guardVars, gilVars, bufVars, convVars>>

\* jit_list_size(list)
JitListSize ==
    /\ ckind = "list"
    /\ aown[Container] > 0
    /\ alast' = AOp("jit_list_size", Len(citems), NULL, 0, Container, NULL)
    /\ UNCHANGED <<arc, aown, ckind, citems, cn, cset>>
    /\ UNCHANGED <<ptrVars, guardVars, gilVars, bufVars, convVars>>

\* jit_list_get(list, i) / jit_tuple_get(tuple, i) / jit_dict_get(dict, key): the item
\* at the slot, or null if there is none
ContainerGet(kind, name, i) ==
    /\ ckind = kind
    /\ aown[Container] > 0
    /\ i < Len(citems)
    /\ IF citems[i + 1] = NULL
       THEN /\ alast' = AOp(name, 0, NULL, i, Container, NULL)
            /\ UNCHANGED <<arc, aown, ckind, citems, cn, cset>>
            /\ UNCHANGED <<ptrVars, guardVars, gilVars, bufVars, convVars>>
       ELSE ReturnsNew(name, citems[i + 1], i, Container)

\* a set that leaves the slot as it was
StoredItemKept(held, x) == held

\* the item a slot holds after x is set at it
StoredItem(held, x) == x

\* jit_list_set(list, i, x) / jit_tuple_set(tuple, i, x) / jit_dict_set(dict, key, x):
\* the container takes a count of its own on x and gives up the one on the item it held
ContainerSet(kind, name, i, x) ==
    /\ ckind = kind
    /\ aown[Container] > 0
    /\ aown[x] > 0
    /\ i < Len(citems)
    /\ citems' = [citems EXCEPT ![i + 1] = StoredItem(citems[i + 1], x)]
    /\ arc' = Py_XDECREF(Py_XINCREF(arc, StoredItem(citems[i + 1], x)), citems[i + 1])
    /\ cset' = [cset EXCEPT ![i + 1] = x]
    /\ alast' = AOp(name, 0, NULL, i, Container, x)
    /\ UNCHANGED <<aown, ckind, cn>>
    /\ UNCHANGED <<ptrVars, guardVars, gilVars, bufVars, convVars>>

\* jit_incref(obj): the caller owns one more count
JitIncref(o) ==
    /\ aown[o] > 0
    /\ TotalOwn < MaxOwn
    /\ arc' = [arc EXCEPT ![o] = @ + 1]
    /\ aown' = [aown EXCEPT ![o] = @ + 1]
    /\ alast' = AOp("jit_incref", 0, NULL, 0, NULL, o)
    /\ UNCHANGED <<ckind, citems, cn, cset>>
    /\ UNCHANGED <<ptrVars, guardVars, gilVars, bufVars, convVars>>

\* jit_decref(obj): the caller gives one count up; the container's last count gone, it
\* is deallocated and gives up its counts on its items
JitDecref(o) ==
    /\ aown[o] > 0
    /\ aown' = [aown EXCEPT ![o] = @ - 1]
    /\ IF o = Container /\ arc[o] = 1
       THEN /\ arc' = [q \in AbiObjs |->
                         IF q = Container THEN 0 ELSE arc[q] - Occ(q, citems)]
            /\ ckind' = "none"
            /\ citems' = <<>>
            /\ cn' = 0
            /\ cset' = [i \in 1..MaxLen |-> NULL]
       ELSE /\ arc' = [arc EXCEPT ![o] = @ - 1]
            /\ UNCHANGED <<ckind, citems, cn, cset>>
    /\ alast' = AOp("jit_decref", 0, NULL, 0, NULL, o)
    /\ UNCHANGED <<ptrVars, guardVars, gilVars, bufVars, convVars>>

InitAbi == AbiIdle /\ ConvIdle /\ PtrIdle /\ GuardIdle /\ GilIdle /\ BufIdle

NextAbi ==
    \/ JitNone
    \/ JitTrue
    \/ JitFalse
    \/ \E v \in ItemValues : JitLongToPy(v)
    \/ \E n \in 0..MaxLen : ContainerNew("list", "jit_list_new", n)
    \/ \E n \in 0..MaxLen : ContainerNew("tuple", "jit_tuple_new", n)
    \/ ContainerNew("dict", "jit_dict_new", MaxLen)
    \/ JitListSize
    \/ \E i \in Slots : ContainerGet("list", "jit_list_get", i)
    \/ \E i \in Slots : ContainerGet("tuple", "jit_tuple_get", i)
    \/ \E i \in Slots : ContainerGet("dict", "jit_dict_get", i)
    \/ \E i \in Slots, x \in AbiObjs \ {Container} : ContainerSet("list", "jit_list_set", i, x)
    \/ \E i \in Slots, x \in AbiObjs \ {Container} : ContainerSet("tuple", "jit_tuple_set", i, x)
    \/ \E i \in Slots, x \in AbiObjs \ {Container} : ContainerSet("dict", "jit_dict_set", i, x)
    \/ \E o \in AbiObjs : JitIncref(o)
    \/ \E o \in AbiObjs : JitDecref(o)

SpecAbi == InitAbi /\ [][NextAbi]_vars

\* ------------------------------------------------------ NumpyBuffer: claims
\* C10: constructing a NumpyBuffer over an object that exports no compatible buffer
\* gives a view with valid() false and leaves every reference count and export count
\* unchanged; destroying a view that is not valid releases nothing.
C10_FailedViewHasNoEffect ==
    /\ [][blast'.op = "BufCtor" /\ ~bufok[blast'.arr] =>
             /\ ~valid'[blast'.b]
             /\ refcnt' = refcnt
             /\ exports' = exports]_vars
    /\ [][blast'.op = "BufDtor" /\ blast'.org = "failed" =>
             /\ ~blast'.released
             /\ refcnt' = refcnt
             /\ exports' = exports]_vars

\* a view whose construction failed has been destroyed
C10_Witness ==
    /\ blast.op = "BufDtor"
    /\ blast.org = "failed"
    /\ ~blast.released
    /\ pyerr

\* the live valid views of object o
Views(o) == {b \in Bufs : bstate[b] = "live" /\ valid[b] /\ vobj[b] = o}

\* C11: every acquired view is held by exactly one live valid NumpyBuffer until it
\* is released, and is released exactly once: an object's export count and its
\* reference count exceed their values before any acquisition by the number of live
\* valid views of it (so they are back there once the last holder is destroyed, and
\* never below); a moved-from view is invalid; a move assignment onto a valid view
\* releases the view it held, and no move releases anything else.
C11_ViewReleasedExactlyOnce ==
    /\ [](\A o \in Objects :
            /\ exports[o] = Cardinality(Views(o))
            /\ refcnt[o] = InitRef + Cardinality(Views(o)))
    /\ [][blast'.op \in {"BufMoveCtor", "BufMoveAssign"} /\ blast'.b # blast'.src =>
             /\ ~valid'[blast'.src]
             /\ valid'[blast'.b] = valid[blast'.src]
             /\ vobj'[blast'.b] = vobj[blast'.src]]_vars
    /\ [][blast'.op = "BufMoveAssign" /\ blast'.b # blast'.src =>
             exports' = (IF valid[blast'.b]
                           THEN ReleaseExports(exports, vobj[blast'.b])
                           ELSE exports)]_vars
    /\ [][blast'.op = "BufMoveCtor" => exports' = exports /\ refcnt' = refcnt]_vars
    /\ [][blast'.op = "BufDtor" =>
             exports' = (IF valid[blast'.b]
                           THEN ReleaseExports(exports, vobj[blast'.b])
                           ELSE exports)]_vars

\* a valid view obtained by a move has been destroyed and released; its moved-from
\* source is still alive and invalid, and nothing is exported any more
C11_Witness ==
    /\ blast.op = "BufDtor"
    /\ blast.org = "moved"
    /\ blast.released
    /\ \A b \in Bufs : bstate[b] = "live" => ~valid[b]
    /\ \E b \in Bufs : bstate[b] = "live" /\ origin[b] = "ok"
    /\ \A o \in Objects : exports[o] = 0 /\ refcnt[o] = InitRef

\* --------------------------------------------------- type converters: claims
\* the bytes are valid UTF-8
ValidUtf8(s) == Utf8Decode(s).ok

\* C12 as stated: converting a native value to a foreign object and back returns the
\* value, for every long long, every double and every NUL-terminated string
C12_RoundTripEveryString ==
    /\ cop = "py_to_long" /\ csrc.kind = "long" => cout = csrc
    /\ cop = "py_to_double" /\ csrc.kind = "double" => cout = csrc
    /\ cop = "py_to_string" /\ csrc.kind = "string" => cout = csrc

\* C12: converting a native value to a foreign object and back returns the value and
\* sets no error, for every long long, every double, and every NUL-terminated string
\* that is valid UTF-8; for a string that is not valid UTF-8 string_to_py returns
\* null with the error indicator set
C12_RoundTripValidUtf8 ==
    /\ cop = "py_to_long" /\ csrc.kind = "long" => cout = csrc
    /\ cop = "py_to_double" /\ csrc.kind = "double" => cout = csrc
    /\ cop = "py_to_string" /\ csrc.kind = "string" /\ ValidUtf8(csrc.str) => cout = csrc
    /\ cop = "string_to_py" /\ ~ValidUtf8(csrc.str) => cobj = PyNull /\ cerr
    /\ cop = "string_to_py" /\ ValidUtf8(csrc.str) => cobj.type = "str"

\* a two-byte UTF-8 sequence has gone through string_to_py and py_to_string
C12_Witness ==
    /\ cop = "py_to_string"
    /\ csrc = SVal(<<195, 169>>)
    /\ cobj = PyStr(<<233>>)
    /\ cout = csrc

\* C13: py_to_long and py_to_double applied to an object that is neither an integer
\* nor a float return the fallback zero and leave the error indicator unset
C13_FallbackZeroNoRaise ==
    [][cop' \in {"py_to_long", "py_to_double"} /\ cobj.type \in {"str", "other"} /\ ~cerr =>
           /\ cout' = (IF cop' = "py_to_long" THEN LVal(0) ELSE DVal(Fin(0)))
           /\ ~cerr']_vars

\* C20: py_to_double applied to an integer object, of any magnitude, returns the
\* integer widened to double and leaves the error indicator unset
C20_IntToDoubleTotal ==
    [][cop' = "py_to_double" /\ cobj.type = "int" /\ ~cerr =>
           /\ cout' = DVal(ToDouble(cobj.int))
           /\ ~cerr']_vars

\* --------------------------------------------------------- C ABI: claims
\* C14 as stated: a call that returns an object gives the caller exactly one new
\* owned count on it, and every call that takes an object leaves the count the caller
\* owns on that argument unchanged
C14_EveryArgumentBorrowed ==
    /\ [][alast'.ret # NULL =>
             /\ arc'[alast'.ret] = arc[alast'.ret] + 1
             /\ aown' = [aown EXCEPT ![alast'.ret] = @ + 1]]_vars
    /\ [][alast'.con # NULL => aown'[alast'.con] = aown[alast'.con]]_vars
    /\ [][alast'.arg # NULL => aown'[alast'.arg] = aown[alast'.arg]]_vars

\* C14: a call that returns an object (a singleton of jit_none / jit_true / jit_false,
\* a converted integer, a new container, an item of a container) gives the caller
\* exactly one new owned count on it and changes no other count the caller owns; a
\* call that takes an object leaves the count the caller owns on that argument
\* unchanged, except jit_incref and jit_decref, which add one count to and take one
\* count from those the caller owns; every count of an object is the runtime's, the
\* caller's or the container's
C14_NewReturnedArgumentsBorrowed ==
    /\ [][alast'.ret # NULL =>
             /\ arc'[alast'.ret] = arc[alast'.ret] + 1
             /\ aown' = [aown EXCEPT ![alast'.ret] = @ + 1]]_vars
    /\ [][alast'.con # NULL => aown'[alast'.con] = aown[alast'.con]]_vars
    /\ [][alast'.arg # NULL /\ alast'.op \notin {"jit_incref", "jit_decref"} =>
             aown'[alast'.arg] = aown[alast'.arg]]_vars
    /\ [][alast'.op = "jit_incref" =>
             /\ aown' = [aown EXCEPT ![alast'.arg] = @ + 1]
             /\ arc' = [arc EXCEPT ![alast'.arg] = @ + 1]]_vars
    /\ [][alast'.op = "jit_decref" =>
             /\ aown' = [aown EXCEPT ![alast'.arg] = @ - 1]
             /\ arc'[alast'.arg] = arc[alast'.arg] - 1]_vars
    /\ [](\A o \in AbiObjs : arc[o] = BaseRc(o) + aown[o] + Occ(o, citems))

\* jit_list_get has returned an item that the list still holds: the object has the
\* runtime's count, the list's and the caller's new one
C14_Witness ==
    /\ alast.op = "jit_list_get"
    /\ alast.ret \in IntObjs
    /\ aown[alast.ret] = 1
    /\ Occ(alast.ret, citems) = 1
    /\ arc[alast.ret] = 3

\* C15: a list made by jit_list_new(n) has n slots however its slots are set:
\* jit_list_size returns n; and jit_list_get(list, i) returns the item most recently
\* set at i
C15_ListReadsBackLastSet ==
    /\ [][alast'.op = "jit_list_new" =>
             cn' = alast'.idx /\ Len(citems') = alast'.idx]_vars
    /\ [](ckind = "list" => Len(citems) = cn)
    /\ [][alast'.op = "jit_list_size" => alast'.val = cn]_vars
    /\ [][alast'.op = "jit_list_set" =>
             cn' = cn /\ cset'[alast'.idx + 1] = alast'.arg]_vars
    /\ [][alast'.op = "jit_list_get" /\ cset[alast'.idx + 1] # NULL =>
             alast'.ret = cset[alast'.idx + 1]]_vars

\* a list of MaxLen slots holds the converted integers 1 .. MaxLen, one at each
\* index, and jit_list_get has returned the last of them
C15_Witness ==
    /\ alast.op = "jit_list_get"
    /\ ckind = "list"
    /\ cn = MaxLen
    /\ \A v \in ItemValues : citems[v] = IntObj(v)
    /\ alast.idx = MaxLen - 1
    /\ alast.ret = IntObj(MaxLen)

\* ---------------------------------------------- GILGuard / GILRelease: claims
\* the thread's Lock State
Held(t) == gil = t

\* the thread is inside a region where its guards say it holds the lock: its innermost
\* lock guard is a GILGuard, or it has none and entered holding the lock
InLockedRegion(t) ==
    IF Len(stack[t]) > 0 THEN Top(t).kind = "guard" ELSE base = t

\* the thread is executing foreign-runtime operations
Executing(t) == tpc[t] = "run" /\ InLockedRegion(t)

\* C6: a GILGuard holds the lock once constructed, and its destruction leaves the
\* thread's Lock State as it was before the construction: NotHeld -> Held -> NotHeld,
\* and Held stays Held; no other thread's state changes.
C6_GuardRoundTrip ==
    /\ [][tlast'.op = "GILGuardEnter" => gil' = tlast'.t]_vars
    /\ [][tlast'.op = "GILGuardDtor" =>
             /\ Held(tlast'.t)
             /\ (gil' = tlast'.t) <=> tlast'.was
             /\ \A u \in Threads \ {tlast'.t} : (gil' = u) <=> Held(u)]_vars

\* a GILGuard constructed while the thread held the lock (through an outer GILGuard
\* that took it) has been destroyed, and the thread still holds the lock
C6_Witness ==
    /\ tlast.op = "GILGuardDtor"
    /\ tlast.was
    /\ Held(tlast.t)
    /\ Len(stack[tlast.t]) = 1
    /\ Top(tlast.t).kind = "guard" /\ ~Top(tlast.t).was

\* C7: a thread constructing a GILGuard inside its own GILGuard is never blocked (the
\* constructor can complete whatever the other threads do), and the destruction of a
\* GILGuard gives the lock up only if no GILGuard of the thread encloses it.
C7_NestedGuardNeverBlocks ==
    /\ [](\A t \in Threads :
            tpc[t] = "ensure" /\ Len(stack[t]) > 0 /\ Top(t).kind = "guard"
                => ENABLED GILGuardEnter(t))
    /\ [][tlast'.op = "GILGuardDtor" =>
             LET t == tlast'.t
                 inner == Len(stack'[t]) > 0 /\ stack'[t][Len(stack'[t])].kind = "guard"
             IN  (inner => gil' = t) /\ (Held(t) /\ gil' # t => ~inner)]_vars

\* a GILGuard has been constructed inside another GILGuard of the same thread while
\* another thread was waiting for the lock
C7_Witness ==
    /\ tlast.op = "GILGuardEnter"
    /\ Len(stack[tlast.t]) >= 2
    /\ Top(tlast.t).kind = "guard" /\ Top(tlast.t).state = "LOCKED"
    /\ stack[tlast.t][Len(stack[tlast.t]) - 1].kind = "guard"
    /\ \E u \in Threads \ {tlast.t} : tpc[u] = "ensure"

\* C8: every thread executing foreign-runtime operations holds the lock, so at most
\* one thread executes them at a time.
C8_MutualExclusion ==
    /\ \A t \in Threads : Executing(t) => Held(t)
    /\ Cardinality({t \in Threads : Executing(t)}) <= 1

\* one thread executes inside a GILGuard while another, inside a GILRelease, runs
\* native code
C8_Witness ==
    \E t \in Threads, u \in Threads :
        /\ t # u
        /\ Executing(t) /\ Len(stack[t]) > 0
        /\ Len(stack[u]) > 0 /\ Top(u).kind = "release" /\ tpc[u] = "run"

\* a thread has a live GILRelease
HasRelease(t) == \E i \in 1..Len(stack[t]) : stack[t][i].kind = "release"

\* C9, as stated: while thread A has a live GILRelease, thread B's acquire does not
\* succeed; it succeeds only after A's guard is destroyed.
C9_AcquireOnlyAfterReleaseGuardDestroyed ==
    [][tlast'.op = "GILGuardEnter" =>
         \A a \in Threads \ {tlast'.t} : ~HasRelease(a)]_vars

\* C9, amended: thread B's acquire can succeed while thread A's GILRelease is alive;
\* the destruction of A's GILRelease completes only when no thread holds the lock and
\* leaves A holding it, and while A then executes holding the lock no other thread's
\* acquire (GILGuard construction or GILRelease destruction) can complete.
C9_ReacquireExcludesOthers ==
    /\ [][tlast'.op = "GILReleaseDtorEnd" => gil = NoThread /\ gil' = tlast'.t]_vars
    /\ [](\A a \in Threads, b \in Threads :
            a # b /\ Executing(a) =>
                /\ ~ENABLED GILGuardEnter(b)
                /\ ~ENABLED GILReleaseDtorEnd(b))

\* thread A's GILRelease has been destroyed while thread B is attempting to acquire
C9_Witness ==
    /\ tlast.op = "GILReleaseDtorEnd"
    /\ Held(tlast.t)
    /\ \E b \in Threads \ {tlast.t} : tpc[b] = "ensure"

\* C19: GILRelease() on a thread that holds the GIL leaves no thread holding it;
\* ~GILRelease() returns only when the GIL is free, and the thread holds it then; and
\* under fair scheduling, with every thread that takes the GIL giving it up again, a
\* thread that has entered ~GILRelease() eventually returns from it
C19_ReleaseDtorCompletes ==
    /\ [][tlast'.op = "GILReleaseCtor" => gil = tlast'.t /\ gil' = NoThread]_vars
    /\ [][tlast'.op = "GILReleaseDtorEnd" =>
             /\ tpc[tlast'.t] = "restore"
             /\ gil = NoThread
             /\ gil' = tlast'.t
             /\ tpc'[tlast'.t] = "run"]_vars
    /\ \A t \in Threads : (tpc[t] = "restore") ~> (tpc[t] = "run" /\ gil = t)

\* a thread is waiting in ~GILRelease() while another thread holds the GIL
C19_Witness ==
    \E t \in Threads, u \in Threads :
        /\ t # u
        /\ tpc[t] = "restore"
        /\ gil = u

Pending(a) == {g \in Guards : gstate[g] = "live" /\ cleanup[g] = a /\ active[g]}

\* C3: a cleanup action handed to make_guard, moved any number of times and never
\* dismissed, runs exactly once in total: not while the guard at the end of the move
\* chain lives (exactly one guard carries the obligation), once when that guard is
\* destroyed, and never through the destruction of a moved-from guard.
C3_CleanupRunsExactlyOnce ==
    \A a \in Actions :
        made[a] /\ ~dcalled[a] =>
            \/ Cardinality(Pending(a)) = 1 /\ runs[a] = 0
            \/ Pending(a) = {} /\ runs[a] = 1

\* a moved-from guard is destroyed after the end of its chain ran the action
C3_Witness ==
    /\ glast.op = "GuardDestroy"
    /\ ~glast.act /\ glast.was = "no"
    /\ ~dcalled[glast.a]
    /\ runs[glast.a] = 1

\* C4: after dismiss() a guard is inactive, and so is every guard move-constructed
\* from it later; destroying such a guard runs nothing; a second dismiss() changes
\* nothing.
C4_DismissIsPermanent ==
    /\ [](\A g \in Guards : gstate[g] = "live" /\ dis[g] # "no" => ~active[g])
    /\ [][glast'.op = "GuardDestroy" /\ glast'.was # "no" => runs' = runs]_vars
    /\ [][glast'.op = "Dismiss" /\ glast'.was = "dismissed" =>
             /\ active' = active /\ cleanup' = cleanup /\ gstate' = gstate
             /\ runs' = runs /\ dis' = dis]_vars

\* a guard move-constructed from a dismissed guard has been destroyed, and its
\* action has not run
C4_Witness ==
    /\ glast.op = "GuardDestroy"
    /\ glast.was = "inherited"
    /\ runs[glast.a] = 0

\* C5: when the cleanup action fails during a guard's destruction, the failure does
\* not leave the destructor: the guard is destroyed, the process is not terminated,
\* and the failure in flight in the enclosing scope (if any) is unchanged.
C5_CleanupFailureSwallowed ==
    [][glast'.op = "GuardDestroy" /\ glast'.threw =>
         /\ ~terminated'
         /\ exc' = exc
         /\ gstate'[glast'.g] = "none"]_vars

\* a cleanup action failed while a primary failure was propagating
C5_Witness ==
    /\ glast.op = "GuardDestroy"
    /\ glast.threw
    /\ exc = "primary"
    /\ ~terminated

\* ------------------------------------------------------ PyObjectPtr: claims
\* the live handles that hold object o (the outstanding owning handles)
Holders(o) == {h \in Handles : hstate[h] = "live" /\ ptr[h] = o}

\* C1, as stated: the net change of an object's reference count equals the number
\* of outstanding non-null handles on it.
C1_NetDeltaIsHandleCount ==
    \A o \in Objects : refcnt[o] - InitRef = Cardinality(Holders(o))

\* C1, amended: the net change of an object's reference count equals the number of
\* outstanding non-null handles on it plus the net change in the counts the calling
\* code owns through raw pointers (steal and reset take one, release gives one back).
C1_NetDeltaIsHandlesPlusRaw ==
    \A o \in Objects :
        refcnt[o] - InitRef = Cardinality(Holders(o)) + (raw[o] - InitRaw)

\* a handle built by borrow has been released: its count is back with the caller,
\* and no handle holds the object
C1_Witness ==
    /\ last.op = "Release"
    /\ last.p # NULL
    /\ Holders(last.p) = {}
    /\ raw[last.p] > InitRaw
    /\ refcnt[last.p] > InitRef

IsMove(l) == l.op \in {"MoveCtor", "MoveAssign"} /\ l.h # l.src

\* after a move: the source is null, the destination holds the source's pointer
MovePointers ==
    IsMove(last') => ptr'[last'.src] = NULL /\ ptr'[last'.h] = ptr[last'.src]

\* a self move assignment changes no pointer and no count
SelfMoveIsNoOp ==
    last'.op = "MoveAssign" /\ last'.h = last'.src => ptr' = ptr /\ refcnt' = refcnt

\* destroying the source of the last move decrements nothing
SourceDtorIsNoOp ==
    last'.op = "Destroy" /\ xfer.on /\ last'.h = xfer.src => refcnt' = refcnt

\* over the lifetimes of the two handles of a move the moved count is decremented
\* at most once, and exactly once when both are destroyed
MovedCountOnce ==
    xfer.on /\ xfer.obj # NULL =>
        /\ xfer.decs <= 1
        /\ (hstate[xfer.src] = "none" /\ hstate[xfer.dst] = "none" => xfer.decs = 1)

\* C2, as stated: a move leaves the source null and the destination with the
\* source's pointer, leaves the moved object's count unchanged, the moved count is
\* decremented exactly once over both lifetimes, and a self move assignment is a no-op.
C2_MoveKeepsCount ==
    /\ [][MovePointers]_vars
    /\ [][IsMove(last') /\ ptr[last'.src] # NULL =>
             refcnt'[ptr[last'.src]] = refcnt[ptr[last'.src]]]_vars
    /\ [][SourceDtorIsNoOp]_vars
    /\ []MovedCountOnce
    /\ [][SelfMoveIsNoOp]_vars

\* C2, amended: as stated, except that a move assignment onto a destination that
\* holds a count on the moved object itself lowers that object's count by the one
\* count the destination gives up; in every other move the moved object's count
\* is unchanged.
C2_MoveTransfersObligation ==
    /\ [][MovePointers]_vars
    /\ [][IsMove(last') /\ ptr[last'.src] # NULL =>
             refcnt'[ptr[last'.src]] = refcnt[ptr[last'.src]] -
                 (IF last'.op = "MoveAssign" /\ ptr[last'.h] = ptr[last'.src]
                    THEN 1 ELSE 0)]_vars
    /\ [][SourceDtorIsNoOp]_vars
    /\ []MovedCountOnce
    /\ [][SelfMoveIsNoOp]_vars

\* both handles of a move of a non-null pointer have been destroyed
C2_Witness ==
    /\ xfer.on /\ xfer.obj # NULL /\ xfer.decs = 1
    /\ hstate[xfer.src] = "none" /\ hstate[xfer.dst] = "none"
    /\ last.op = "Destroy"

\* C17: reset(p) decrements the count of the object the handle held exactly once
\* (nothing if it held null) and increments nothing, then holds p; the handle's count
\* on p is one of the counts the object has, and the destructor decrements it; so for
\* every p, nullptr and the pointer already held included
C17_ResetAdoptsStolen ==
    /\ [][last'.op = "Reset" =>
             /\ last'.src = ptr[last'.h]
             /\ refcnt' = Py_XDECREF(refcnt, ptr[last'.h])
             /\ ptr'[last'.h] = last'.p
             /\ \A g \in Handles \ {last'.h} : ptr'[g] = ptr[g]]_vars
    /\ [](last.op = "Reset" /\ last.p # NULL =>
             /\ last.h \in Holders(last.p)
             /\ refcnt[last.p] = InitOther + raw[last.p] + Cardinality(Holders(last.p)))
    /\ [][last.op = "Reset" /\ last'.op = "Destroy" /\ last'.h = last.h =>
             refcnt' = Py_XDECREF(refcnt, last.p)]_vars

\* a handle has been reset to the pointer it already held
C17_Witness ==
    /\ last.op = "Reset"
    /\ last.p # NULL
    /\ last.src = last.p
    /\ ptr[last.h] = last.p
    /\ refcnt[last.p] = InitOther + 1

\* C18: release() returns the pointer the handle held, sets the handle to null and
\* changes no reference count and no other handle; destroying the handle afterwards
\* decrements nothing; on a null handle it returns null and changes nothing
C18_ReleaseHandsBack ==
    /\ [][last'.op = "Release" =>
             /\ last'.p = ptr[last'.h]
             /\ ptr'[last'.h] = NULL
             /\ refcnt' = refcnt
             /\ hstate' = hstate
             /\ raw' = RawAdj(raw, ptr[last'.h], 1)
             /\ \A g \in Handles \ {last'.h} : ptr'[g] = ptr[g]
             /\ (ptr[last'.h] = NULL => last'.p = NULL /\ ptr' = ptr /\ raw' = raw)]_vars
    /\ [][last.op = "Release" /\ last'.op = "Destroy" /\ last'.h = last.h =>
             refcnt' = refcnt]_vars

\* a handle holding an object has been released: it is alive and null, and the count
\* it held is the caller's
C18_Witness ==
    /\ last.op = "Release"
    /\ last.p # NULL
    /\ hstate[last.h] = "live"
    /\ ptr[last.h] = NULL
    /\ Holders(last.p) = {}
    /\ refcnt[last.p] = InitOther + raw[last.p]

====
